---- MODULE Spec2Model ----
(***************************************************************************)
(* The schema <-> SQL transformation engine of backend/app/main.py:        *)
(*   generate_sql_from_structured_schema / generate_table_sql  (forward)   *)
(*   parse_sql_to_schema                                        (reverse)  *)
(*   the statement split of execute_sql                                    *)
(*   the fallback of generate_database (generate_sql_with_fallback)        *)
(*   the columns conversion of parse_natural_language_with_ai              *)
(*   the attempts of the generate_sql endpoint                             *)
(*   the table endpoints drop_table, get_table_structure and               *)
(*   generate_drop_sql_for_table                                           *)
(* Text is modelled as TLA+ strings, character by character: Len, \o and   *)
(* SubSeq are the only primitives used on them.                            *)
(***************************************************************************)
EXTENDS Integers, Sequences, FiniteSets, TLC

VARIABLES
    pc,          \* where the current request stands
    schema,      \* the structured schema handed to the forward generator
    fragments,   \* the pieces the DDL text handed to the parser was made of
    sql,         \* the DDL text (generated, or received from the oracle)
    schema_json, \* the schema returned with sql: the oracle's schema with its
                 \* columns, or the result of parse_sql_to_schema(sql)
    statements,  \* the statements execute_sql ran, in order
    GEMINI_AVAILABLE, \* whether the oracle is configured (lines 42-52)
    calls,       \* the generation calls the request made so far, in order,
                 \* each with its outcome
    response,    \* the response the generate_sql endpoint or a table
                 \* endpoint returned
    request_table,  \* the table name a table endpoint was called with
    database,    \* the tables of the SQLite database, each with its columns
    db_log       \* what the request did on the database, in order

vars ==
    <<pc, schema, fragments, sql, schema_json, statements, GEMINI_AVAILABLE,
      calls, response, request_table, database, db_log>>

(***************************************************************************)
(* Bounds of the model.                                                    *)
(***************************************************************************)
MaxTables == 2
MaxAttrs == 3
MaxBlocks == 2

(***************************************************************************)
(* Python's str primitives.                                                *)
(***************************************************************************)
Char(s, i) == SubSeq(s, i, i)

\* s[i:j] for 1-based inclusive bounds, empty when the range is empty
Slice(s, i, j) == IF i > j \/ i < 1 \/ j > Len(s) THEN "" ELSE SubSeq(s, i, j)

LowerCase == "abcdefghijklmnopqrstuvwxyz"
UpperCase == "ABCDEFGHIJKLMNOPQRSTUVWXYZ"
Digits == "0123456789"

CharsOf(s) == {Char(s, i) : i \in 1..Len(s)}

ToLower ==
    [c \in CharsOf(UpperCase) |->
        Char(LowerCase, CHOOSE i \in 1..Len(UpperCase) : Char(UpperCase, i) = c)]

ToUpper ==
    [c \in CharsOf(LowerCase) |->
        Char(UpperCase, CHOOSE i \in 1..Len(LowerCase) : Char(LowerCase, i) = c)]

lower_char(c) == IF c \in DOMAIN ToLower THEN ToLower[c] ELSE c

upper_char(c) == IF c \in DOMAIN ToUpper THEN ToUpper[c] ELSE c

\* str.lower()
RECURSIVE lower(_)
lower(s) ==
    IF Len(s) = 0 THEN ""
    ELSE lower_char(Char(s, 1)) \o lower(Slice(s, 2, Len(s)))

\* str.endswith(suffix)
endswith(s, suffix) ==
    /\ Len(suffix) <= Len(s)
    /\ Slice(s, Len(s) - Len(suffix) + 1, Len(s)) = suffix

\* str.startswith(prefix) at offset i (1-based)
startswith_at(s, i, prefix) ==
    /\ i >= 1
    /\ i + Len(prefix) - 1 <= Len(s)
    /\ SubSeq(s, i, i + Len(prefix) - 1) = prefix

\* the positions at which sub occurs in s
Occurrences(s, sub) == {i \in 1..Len(s) : startswith_at(s, i, sub)}

\* sub in s
contains(s, sub) == Occurrences(s, sub) # {}

Min(S) == CHOOSE i \in S : \A j \in S : i <= j

Max(S) == CHOOSE i \in S : \A j \in S : i >= j

\* the characters \s and \w of Python's re module (ASCII part)
IsSpace(c) == c \in {" ", "\n", "\t", "\r"}

WordChars == CharsOf(LowerCase) \cup CharsOf(UpperCase) \cup CharsOf(Digits) \cup {"_"}

IsWord(c) == c \in WordChars

\* the offset of the first character from i on that is not white space
RECURSIVE strip_left(_, _)
strip_left(s, i) ==
    IF i <= Len(s) /\ IsSpace(Char(s, i)) THEN strip_left(s, i + 1) ELSE i

\* the offset of the last character up to i that is not white space
RECURSIVE strip_right(_, _)
strip_right(s, i) ==
    IF i >= 1 /\ IsSpace(Char(s, i)) THEN strip_right(s, i - 1) ELSE i

\* str.strip()
strip(s) ==
    LET first == strip_left(s, 1)
        last == strip_right(s, Len(s))
    IN  IF first > last THEN "" ELSE SubSeq(s, first, last)

\* the starts of the separators str.split cuts at, left to right from offset i
RECURSIVE cut_points(_, _, _)
cut_points(occ, i, n) ==
    LET rest == {o \in occ : o >= i}
    IN  IF rest = {} THEN <<>>
        ELSE <<Min(rest)>> \o cut_points(occ, Min(rest) + n, n)

\* str.split(sep)
split(s, sep) ==
    LET cuts == cut_points(Occurrences(s, sep), 1, Len(sep))
    IN  [k \in 1..(Len(cuts) + 1) |->
            Slice(s,
                  IF k = 1 THEN 1 ELSE cuts[k - 1] + Len(sep),
                  IF k = Len(cuts) + 1 THEN Len(s) ELSE cuts[k] - 1)]

\* execute_sql, line 152: the statements of a text
split_statements(s) ==
    LET parts == split(s, ";")
        stripped == [k \in DOMAIN parts |-> strip(parts[k])]
    IN  SelectSeq(stripped, LAMBDA stmt : stmt # "")

(***************************************************************************)
(* Forward generator.                                                      *)
(***************************************************************************)
\* the outcome of a call that raised (KeyError on a missing key)
KeyError == "<KeyError>"

\* generate_table_sql, lines 570-573: 'attributes', else the names of 'columns'
table_attributes(table) ==
    LET attributes == IF "attributes" \in DOMAIN table THEN table.attributes ELSE <<>>
    IN  IF attributes = <<>> /\ "columns" \in DOMAIN table /\ table.columns # <<>>
        THEN [i \in DOMAIN table.columns |-> table.columns[i].name]
        ELSE attributes

\* a variant of is_id that accepts every name ending with `id`
is_id_any_suffix(attr) ==
    LET name == lower(attr)
    IN  endswith(name, "id") /\ ~endswith(name, "name")

\* line 592: the id test that decides the primary key
is_id(attr) ==
    LET name == lower(attr)
    IN  endswith(name, "_id") /\ ~endswith(name, "name")

\* a variant of data_type that looks for `date` before the id suffix
data_type_date_first(attr) ==
    LET name == lower(attr)
    IN  IF contains(name, "date") THEN "DATE"
        ELSE IF endswith(name, "_id") /\ ~endswith(name, "name") THEN "INTEGER"
        ELSE IF contains(name, "time") \/ contains(name, "duration") THEN "INTEGER"
        ELSE IF \E word \in {"age", "price", "amount", "credits"} :
                    contains(name, word)
             THEN "INTEGER"
        ELSE "TEXT"

\* a variant of data_type that looks for `time` and `duration` before `date`
data_type_time_first(attr) ==
    LET name == lower(attr)
    IN  IF endswith(name, "_id") /\ ~endswith(name, "name") THEN "INTEGER"
        ELSE IF contains(name, "time") \/ contains(name, "duration") THEN "INTEGER"
        ELSE IF contains(name, "date") THEN "DATE"
        ELSE IF \E word \in {"age", "price", "amount", "credits"} :
                    contains(name, word)
             THEN "INTEGER"
        ELSE "TEXT"

\* a variant of data_type that reads the name as written, without lower()
data_type_case_sensitive(attr) ==
    IF endswith(attr, "_id") /\ ~endswith(attr, "name") THEN "INTEGER"
    ELSE IF contains(attr, "date") THEN "DATE"
    ELSE IF contains(attr, "time") \/ contains(attr, "duration") THEN "INTEGER"
    ELSE IF \E word \in {"age", "price", "amount", "credits"} : contains(attr, word)
         THEN "INTEGER"
    ELSE "TEXT"

\* lines 579-587: the type chosen for an attribute name
data_type(attr) ==
    LET name == lower(attr)
    IN  IF endswith(name, "_id") /\ ~endswith(name, "name") THEN "INTEGER"
        ELSE IF contains(name, "date") THEN "DATE"
        ELSE IF contains(name, "time") \/ contains(name, "duration") THEN "INTEGER"
        ELSE IF \E word \in {"age", "price", "amount", "credits"} :
                    contains(name, word)
             THEN "INTEGER"
        ELSE "TEXT"

\* a variant of takes_primary_key that forgets has_primary_key
takes_primary_key_every_id(attr, has_primary_key) == is_id(attr)

\* line 592: whether this attribute takes the PRIMARY KEY
takes_primary_key(attr, has_primary_key) == ~has_primary_key /\ is_id(attr)

\* a variant of constraints that writes NOT NULL in front of UNIQUE
constraints_not_null_first(attr) ==
    LET name == lower(attr)
    IN  (IF contains(name, "name") /\ ~endswith(name, "_id")
         THEN " NOT NULL" ELSE "")
        \o (IF contains(name, "email") THEN " UNIQUE" ELSE "")

\* lines 596-599: the UNIQUE and NOT NULL keywords
constraints(attr) ==
    LET name == lower(attr)
    IN  (IF contains(name, "email") THEN " UNIQUE" ELSE "")
        \o (IF contains(name, "name") /\ ~endswith(name, "_id")
            THEN " NOT NULL" ELSE "")

\* a variant of attribute_comma that never follows the last attribute
attribute_comma_unless_last(is_last, relationships) ==
    IF ~is_last THEN "," ELSE ""

\* lines 601-602: the comma after an attribute line
attribute_comma(is_last, relationships) ==
    IF ~is_last \/ relationships # <<>> THEN "," ELSE ""

\* lines 575-603: the attribute loop, from attribute i on
RECURSIVE attribute_lines(_, _, _, _)
attribute_lines(attributes, i, has_primary_key, relationships) ==
    IF i > Len(attributes) THEN ""
    ELSE LET attr == attributes[i]
             is_last == (i = Len(attributes))
             key == takes_primary_key(attr, has_primary_key)
         IN  "  " \o attr \o " " \o data_type(attr)
             \o (IF key THEN " PRIMARY KEY" ELSE "")
             \o constraints(attr)
             \o attribute_comma(is_last, relationships)
             \o "\n"
             \o attribute_lines(attributes, i + 1, has_primary_key \/ key,
                                relationships)

\* a variant of table_relationships that keeps every relationship
table_relationships_every(table, relationships) == relationships

\* line 606: the relationships of this table
table_relationships(table, relationships) ==
    SelectSeq(relationships, LAMBDA rel : rel.fromTable = table.name)

\* lines 607-611: the foreign key loop, from relationship i on
RECURSIVE foreign_key_lines(_, _)
foreign_key_lines(rels, i) ==
    IF i > Len(rels) THEN ""
    ELSE "  FOREIGN KEY (" \o rels[i].fromColumn \o ") REFERENCES "
         \o rels[i].toTable \o "s(" \o rels[i].toColumn \o ")"
         \o (IF i < Len(rels) THEN "," ELSE "")
         \o "\n"
         \o foreign_key_lines(rels, i + 1)

\* a variant of generate_table_sql that indexes table['attributes']
generate_table_sql_indexing(table, all_tables, relationships) ==
    IF "name" \notin DOMAIN table \/ "attributes" \notin DOMAIN table THEN KeyError
    ELSE "CREATE TABLE IF NOT EXISTS " \o table.name \o "s (\n"
         \o attribute_lines(table.attributes, 1, FALSE, relationships)
         \o foreign_key_lines(table_relationships(table, relationships), 1)
         \o ");"

\* lines 561-614
generate_table_sql(table, all_tables, relationships) ==
    IF "name" \notin DOMAIN table THEN KeyError
    ELSE "CREATE TABLE IF NOT EXISTS " \o table.name \o "s (\n"
         \o attribute_lines(table_attributes(table), 1, FALSE, relationships)
         \o foreign_key_lines(table_relationships(table, relationships), 1)
         \o ");"

\* a variant of join_parts that puts no blank line between two parts
RECURSIVE join_parts_one_newline(_, _)
join_parts_one_newline(sql_parts, i) ==
    IF i > Len(sql_parts) THEN ""
    ELSE sql_parts[i]
         \o (IF i < Len(sql_parts) THEN "\n" ELSE "")
         \o join_parts_one_newline(sql_parts, i + 1)

\* "\n\n".join(sql_parts), from part i on
RECURSIVE join_parts(_, _)
join_parts(sql_parts, i) ==
    IF i > Len(sql_parts) THEN ""
    ELSE sql_parts[i]
         \o (IF i < Len(sql_parts) THEN "\n\n" ELSE "")
         \o join_parts(sql_parts, i + 1)

\* lines 551-559
generate_sql_from_structured_schema(s) ==
    LET sql_parts ==
            [i \in DOMAIN s.tables |->
                generate_table_sql(s.tables[i], s.tables, s.relationships)]
    IN  IF \E i \in DOMAIN sql_parts : sql_parts[i] = KeyError
        THEN KeyError
        ELSE join_parts(sql_parts, 1)

\* a variant of column_type that lacks the `time` and `duration` rule
column_type_without_time(attr) ==
    LET name == lower(attr)
    IN  IF endswith(name, "_id") /\ ~endswith(name, "name") THEN "INTEGER"
        ELSE IF contains(name, "date") THEN "DATE"
        ELSE IF \E word \in {"age", "price", "amount", "credits"} :
                    contains(name, word)
             THEN "INTEGER"
        ELSE "TEXT"

\* parse_natural_language_with_ai, lines 529-537: the type recorded for an
\* attribute name in the 'columns' list
column_type(attr) ==
    LET name == lower(attr)
    IN  IF endswith(name, "_id") /\ ~endswith(name, "name") THEN "INTEGER"
        ELSE IF contains(name, "date") THEN "DATE"
        ELSE IF contains(name, "time") \/ contains(name, "duration") THEN "INTEGER"
        ELSE IF \E word \in {"age", "price", "amount", "credits"} :
                    contains(name, word)
             THEN "INTEGER"
        ELSE "TEXT"

\* lines 525-543: a table in the 'attributes' format gets a 'columns' list;
\* a table that has 'columns' already, or no 'attributes', is left as it is
convert_table(table) ==
    IF "attributes" \in DOMAIN table /\ "columns" \notin DOMAIN table
    THEN [k \in DOMAIN table \cup {"columns"} |->
             IF k = "columns"
             THEN [i \in DOMAIN table.attributes |->
                      [name |-> table.attributes[i],
                       type |-> column_type(table.attributes[i])]]
             ELSE table[k]]
    ELSE table

\* lines 523-545: the schema parse_natural_language_with_ai returns for the
\* decoded answer of the oracle
convert_attributes(parsed_schema) ==
    [tables |-> [i \in DOMAIN parsed_schema.tables |->
                    convert_table(parsed_schema.tables[i])],
     relationships |-> parsed_schema.relationships]

\* lines 662-670: the fixed text returned when there is no oracle output
generate_sql_with_fallback ==
    "CREATE TABLE IF NOT EXISTS Generated_Table (\n  id INTEGER PRIMARY KEY,\n  name TEXT NOT NULL,\n  description TEXT,\n  created_at TIMESTAMP DEFAULT CURRENT_TIMESTAMP\n);"

(***************************************************************************)
(* Reverse parser: the regular expressions of parse_sql_to_schema.         *)
(* Every quantifier of the three patterns is followed by a token that      *)
(* cannot start inside its own run, so the backtracking matcher has one    *)
(* way to match at a given start and the scans below are that match.       *)
(***************************************************************************)
\* the literal lit (upper case) at offset i of s, under re.IGNORECASE
literal_at(s, i, lit) ==
    /\ i >= 1
    /\ i + Len(lit) - 1 <= Len(s)
    /\ \A k \in 1..Len(lit) : upper_char(Char(s, i + k - 1)) = Char(lit, k)

\* \s* from offset i: the offset of the first character after the run
RECURSIVE skip_spaces(_, _)
skip_spaces(s, i) ==
    IF i <= Len(s) /\ IsSpace(Char(s, i)) THEN skip_spaces(s, i + 1) ELSE i

\* \w* from offset i: the offset of the first character after the run
RECURSIVE skip_word(_, _)
skip_word(s, i) ==
    IF i <= Len(s) /\ IsWord(Char(s, i)) THEN skip_word(s, i + 1) ELSE i

NoMatch == [ok |-> FALSE]

\* (?:IF\s+NOT\s+EXISTS\s+)? at offset i: the offset after it
skip_if_not_exists(s, i) ==
    LET a == skip_spaces(s, i + 2)
        b == skip_spaces(s, a + 3)
        c == skip_spaces(s, b + 6)
    IN  IF /\ literal_at(s, i, "IF") /\ a > i + 2
           /\ literal_at(s, a, "NOT") /\ b > a + 3
           /\ literal_at(s, b, "EXISTS") /\ c > b + 6
        THEN c
        ELSE i

\* line 1146: create_table_pattern matched at offset i of the text
match_create_table(s, i) ==
    LET p1 == i + 6
        p2 == skip_spaces(s, p1)
        p3 == p2 + 5
        p4 == skip_spaces(s, p3)
        p5 == skip_if_not_exists(s, p4)
        p6 == skip_word(s, p5)
        p7 == skip_spaces(s, p6)
        ends == {k \in (p7 + 1)..Len(s) : startswith_at(s, k, ");")}
    IN  IF /\ literal_at(s, i, "CREATE") /\ p2 > p1
           /\ literal_at(s, p2, "TABLE") /\ p4 > p3
           /\ p6 > p5
           /\ startswith_at(s, p7, "(")
           /\ ends # {}
        THEN [ok |-> TRUE,
              table_name |-> Slice(s, p5, p6 - 1),
              columns |-> Slice(s, p7 + 1, Min(ends) - 1),
              end |-> Min(ends) + 2]
        ELSE NoMatch

\* line 1147: re.findall, the matches from offset i on, left to right
RECURSIVE find_all_tables(_, _)
find_all_tables(s, i) ==
    LET starts == {k \in i..Len(s) :
                      literal_at(s, k, "C") /\ match_create_table(s, k).ok}
    IN  IF starts = {} THEN <<>>
        ELSE LET m == match_create_table(s, Min(starts))
             IN  <<m>> \o find_all_tables(s, m.end)

\* lines 1155-1160: paren_count when the loop reaches character i
paren_count(columns, i) ==
    Cardinality({k \in 1..(i - 1) : Char(columns, k) = "("})
    - Cardinality({k \in 1..(i - 1) : Char(columns, k) = ")"})

\* a variant of split_points that cuts at every comma
split_points_every_comma(columns) ==
    {i \in 1..Len(columns) : Char(columns, i) = ","}

\* line 1161: the commas that end a definition
split_points(columns) ==
    {i \in 1..Len(columns) :
        Char(columns, i) = "," /\ paren_count(columns, i) = 0}

RECURSIVE sorted(_)
sorted(S) == IF S = {} THEN <<>> ELSE <<Min(S)>> \o sorted(S \ {Min(S)})

\* lines 1151-1169: the stripped, non-empty definitions of a table body
column_definitions(columns) ==
    LET cuts == <<0>> \o sorted(split_points(columns)) \o <<Len(columns) + 1>>
        pieces == [k \in 1..(Len(cuts) - 1) |->
                      strip(Slice(columns, cuts[k] + 1, cuts[k + 1] - 1))]
    IN  SelectSeq(pieces, LAMBDA piece : piece # "")

\* line 1181: the foreign key pattern matched at offset i of a definition
match_foreign_key(line, i) ==
    LET p1 == i + 7
        p2 == skip_spaces(line, p1)
        p3 == skip_spaces(line, p2 + 3)
        c1 == p3 + 1
        c2 == skip_word(line, c1)
        p4 == skip_spaces(line, c2 + 1)
        p5 == p4 + 10
        t1 == skip_spaces(line, p5)
        t2 == skip_word(line, t1)
        p6 == skip_spaces(line, t2)
        d1 == p6 + 1
        d2 == skip_word(line, d1)
    IN  IF /\ literal_at(line, i, "FOREIGN") /\ p2 > p1
           /\ literal_at(line, p2, "KEY")
           /\ startswith_at(line, p3, "(") /\ c2 > c1
           /\ startswith_at(line, c2, ")")
           /\ literal_at(line, p4, "REFERENCES") /\ t1 > p5
           /\ t2 > t1
           /\ startswith_at(line, p6, "(") /\ d2 > d1
           /\ startswith_at(line, d2, ")")
        THEN [ok |-> TRUE,
              fromColumn |-> Slice(line, c1, c2 - 1),
              toTable |-> Slice(line, t1, t2 - 1),
              toColumn |-> Slice(line, d1, d2 - 1)]
        ELSE NoMatch

\* line 1181: re.search, the leftmost match in the definition
search_foreign_key(line) ==
    LET starts == {k \in 1..Len(line) :
                      literal_at(line, k, "F") /\ match_foreign_key(line, k).ok}
    IN  IF starts = {} THEN NoMatch ELSE match_foreign_key(line, Min(starts))

\* a variant of match_column with the two groups exchanged
match_column_swapped(line) ==
    LET n1 == skip_word(line, 1)
        t1 == skip_spaces(line, n1)
        t2 == skip_word(line, t1)
    IN  IF n1 > 1 /\ t1 > n1 /\ t2 > t1
        THEN [ok |-> TRUE,
              name |-> Slice(line, t1, t2 - 1),
              type |-> Slice(line, 1, n1 - 1)]
        ELSE NoMatch

\* line 1192: re.match of (\w+)\s+(\w+)(?:\s+.*)? at the start of a definition
match_column(line) ==
    LET n1 == skip_word(line, 1)
        t1 == skip_spaces(line, n1)
        t2 == skip_word(line, t1)
    IN  IF n1 > 1 /\ t1 > n1 /\ t2 > t1
        THEN [ok |-> TRUE,
              name |-> Slice(line, 1, n1 - 1),
              type |-> Slice(line, t1, t2 - 1)]
        ELSE NoMatch

\* a variant of is_foreign_key without the upper()
is_foreign_key_case_sensitive(line) == startswith_at(line, 1, "FOREIGN KEY")

\* line 1179
is_foreign_key(line) == literal_at(line, 1, "FOREIGN KEY")

\* lines 1179-1188: the relationships a table's definitions add
table_foreign_keys(table_name, definitions) ==
    LET found == SelectSeq(definitions,
                     LAMBDA line : is_foreign_key(line) /\ search_foreign_key(line).ok)
    IN  [k \in DOMAIN found |->
            [fromTable |-> table_name,
             fromColumn |-> search_foreign_key(found[k]).fromColumn,
             toTable |-> search_foreign_key(found[k]).toTable,
             toColumn |-> search_foreign_key(found[k]).toColumn]]

\* a variant of table_columns that sends to the column branch every
\* definition that gave no relationship
table_columns_unless_relationship(definitions) ==
    LET found == SelectSeq(definitions,
                     LAMBDA line : /\ ~(is_foreign_key(line) /\ search_foreign_key(line).ok)
                                   /\ match_column(line).ok)
    IN  [k \in DOMAIN found |->
            [name |-> match_column(found[k]).name,
             type |-> match_column(found[k]).type]]

\* lines 1189-1200: the columns a table's definitions add
table_columns(definitions) ==
    LET found == SelectSeq(definitions,
                     LAMBDA line : ~is_foreign_key(line) /\ match_column(line).ok)
    IN  [k \in DOMAIN found |->
            [name |-> match_column(found[k]).name,
             type |-> match_column(found[k]).type]]

\* lines 1149-1206: one match of the pattern, as a table and its relationships
parse_table(m) ==
    LET definitions == column_definitions(m.columns)
        columns_data == table_columns(definitions)
    IN  [table |-> [name |-> m.table_name,
                    attributes |-> [k \in DOMAIN columns_data |-> columns_data[k].name],
                    columns |-> columns_data],
         relationships |-> table_foreign_keys(m.table_name, definitions)]

\* a variant of concat that puts the later sequences first
RECURSIVE concat_reversed(_, _)
concat_reversed(seqs, i) ==
    IF i > Len(seqs) THEN <<>> ELSE concat_reversed(seqs, i + 1) \o seqs[i]

RECURSIVE concat(_, _)
concat(seqs, i) == IF i > Len(seqs) THEN <<>> ELSE seqs[i] \o concat(seqs, i + 1)

\* lines 1139-1214
parse_sql_to_schema(s) ==
    LET matches == find_all_tables(s, 1)
        parsed == [k \in DOMAIN matches |-> parse_table(matches[k])]
    IN  [tables |-> [k \in DOMAIN parsed |-> parsed[k].table],
         relationships |->
             concat([k \in DOMAIN parsed |-> parsed[k].relationships], 1)]

(***************************************************************************)
(* Inputs: the structured schemas and the DDL texts a request can carry.   *)
(***************************************************************************)
EmptySchema == [tables |-> <<>>, relationships |-> <<>>]

EntityNames == <<"Student", "Borrowing", "Book">>

\* the attribute names each entity draws from, in catalogue order
Catalogue ==
    << <<"id", "Student_ID", "Name", "Email">>,
       <<"Borrowing_ID", "Update_ID", "Username">>,
       <<"Due_Date", "Book_ID">> >>

Nth(seq, k) == seq[((k - 1) % Len(seq)) + 1]

\* the runs of at most MaxAttrs consecutive names of a catalogue
Windows(cat) ==
    {SubSeq(cat, w[1], w[2]) :
        w \in {v \in (1..Len(cat)) \X (0..Len(cat)) :
                  v[2] >= v[1] - 1 /\ v[2] - v[1] + 1 <= MaxAttrs}}

TablesOf(k) ==
    {[name |-> Nth(EntityNames, k), attributes |-> w] : w \in Windows(Nth(Catalogue, k))}

RECURSIVE TableSeqs(_)
TableSeqs(n) ==
    IF n = 0 THEN {<<>>}
    ELSE {Append(ts, t) : ts \in TableSeqs(n - 1), t \in TablesOf(n)}

Rel(ft, fc, tt, tc) ==
    [fromTable |-> ft, fromColumn |-> fc, toTable |-> tt, toColumn |-> tc]

BorrowsStudent == Rel("Borrowing", "Student_ID", "Student", "Student_ID")
BorrowsBook == Rel("Borrowing", "Book_ID", "Book", "Book_ID")
AdvisedBy == Rel("Student", "Advisor_ID", "Teacher", "Teacher_ID")
LoanOf == Rel("Loan", "Book_ID", "Book", "Book_ID")

RelationshipLists ==
    { <<>>,
      <<BorrowsStudent>>,
      <<BorrowsStudent, BorrowsBook>>,
      <<BorrowsStudent, AdvisedBy>>,
      <<LoanOf>> }

\* a table in the 'columns' format, and a table with no 'name' key
ColumnsSchema ==
    [tables |-> << [name |-> "Member",
                    columns |-> << [name |-> "Member_ID", type |-> "INTEGER"],
                                   [name |-> "Join_Date", type |-> "DATE"] >>] >>,
     relationships |-> <<>>]

\* a table in the 'columns' format whose types the oracle chose itself
TypedColumnsSchema ==
    [tables |-> << [name |-> "Product",
                    columns |-> << [name |-> "Product_ID", type |-> "INTEGER"],
                                   [name |-> "Price", type |-> "REAL"] >>] >>,
     relationships |-> <<>>]

NamelessSchema ==
    [tables |-> << [attributes |-> <<"Name">>] >>, relationships |-> <<>>]

\* attribute names that meet the inference rules one by one and in pairs
InferenceNames ==
    <<"Email_ID", "Name_ID", "Email_Name", "Name_Date", "Update_Time", "Start_Time",
      "Duration", "Page_Count", "Price", "Amount", "Credits", "Title">>

\* a second entity whose names differ from three of them by letter case only
ArchiveTable ==
    [name |-> "Archive", attributes |-> <<"EMAIL_NAME", "update_time", "name_id">>]

InferenceSchemas ==
    {[tables |-> <<[name |-> "Contact", attributes |-> w], ArchiveTable>>,
      relationships |-> <<>>] : w \in Windows(InferenceNames)}

Schemas ==
    {[tables |-> ts, relationships |-> rs] :
        ts \in UNION {TableSeqs(n) : n \in 0..MaxTables}, rs \in RelationshipLists}
    \cup {ColumnsSchema, TypedColumnsSchema, NamelessSchema}
    \cup InferenceSchemas

\* structurally valid: every table has a name
Valid(s) == \A i \in DOMAIN s.tables : "name" \in DOMAIN s.tables[i]

\* the pieces of text the oracle's answer is made of; tables names the
\* CREATE TABLE blocks a well-formed piece holds
Prose == [text |-> "Please create a library database.", tables |-> <<>>]

ScenarioB ==
    [text |-> "CREATE TABLE IF NOT EXISTS Borrowings (\n  Borrowing_ID INTEGER PRIMARY KEY,\n  Student_ID INTEGER,\n  FOREIGN KEY (Student_ID) REFERENCES Students(Student_ID)\n);",
     tables |-> <<"Borrowings">>]

Products ==
    [text |-> "CREATE TABLE Products (\n  Product_ID INTEGER PRIMARY KEY,\n  Price DECIMAL(10,2) NOT NULL\n);",
     tables |-> <<"Products">>]

Members ==
    [text |-> "create table if not exists Members (member_id integer primary key, fee decimal(8,2), unique (member_id), foreign key (member_id) references Clubs (club_id));",
     tables |-> <<"Members">>]

Loans ==
    [text |-> "CREATE TABLE Loans (\n  Loan_ID INTEGER,\n  FOREIGN KEY (Loan_ID)\n);",
     tables |-> <<"Loans">>]

Unterminated == [text |-> "CREATE TABLE Broken (\n  x INTEGER", tables |-> <<>>]

Fragments == {Prose, ScenarioB, Products, Members, Loans, Unterminated}

\* a block with a `;` inside parentheses, and the answers that hold it
Notes ==
    [text |-> "CREATE TABLE Notes (\n  Note_ID INTEGER PRIMARY KEY,\n  Body TEXT CHECK (Body <> ';')\n);",
     tables |-> <<"Notes">>]

SeparatorLists == {<<Notes>>, <<Notes, Products>>, <<Prose, Notes>>}

\* a block with two foreign keys, and the answers that hold it
Enrollments ==
    [text |-> "CREATE TABLE IF NOT EXISTS Enrollments (\n  Student_ID INTEGER,\n  Course_ID INTEGER,\n  FOREIGN KEY (Student_ID) REFERENCES Students(Student_ID),\n  FOREIGN KEY (Course_ID) REFERENCES Courses(Course_ID)\n);",
     tables |-> <<"Enrollments">>]

TwoKeyLists == {<<Enrollments>>, <<Enrollments, ScenarioB>>, <<Members, Enrollments>>}

RECURSIVE FragmentSeqs(_)
FragmentSeqs(n) ==
    IF n = 0 THEN {<<>>}
    ELSE {Append(fs, f) : fs \in FragmentSeqs(n - 1), f \in Fragments}

FragmentLists == UNION {FragmentSeqs(n) : n \in 0..MaxBlocks}

\* the text of a list of pieces, one blank line between two pieces
TextOf(fs) == join_parts([k \in DOMAIN fs |-> fs[k].text], 1)

(***************************************************************************)
(* The state machine: one request.                                         *)
(***************************************************************************)
\* Python's None in a response body
None == "<None>"

\* a row of PRAGMA table_info as get_table_structure formats it, lines 1039-1045
Column(name, type, not_null, primary_key, default_value) ==
    [name |-> name, type |-> type, not_null |-> not_null,
     primary_key |-> primary_key, default_value |-> default_value]

\* lines 111-143: the tables of the database after init_database;
\* sqlite_sequence is the table SQLite keeps for AUTOINCREMENT
init_database ==
    [t \in {"test_table", "saved_schemas", "sqlite_sequence"} |->
        CASE t = "test_table" ->
                 << Column("id", "INTEGER", FALSE, TRUE, None),
                    Column("name", "TEXT", TRUE, FALSE, None),
                    Column("created_at", "TIMESTAMP", FALSE, FALSE,
                           "CURRENT_TIMESTAMP") >>
          [] t = "saved_schemas" ->
                 << Column("id", "INTEGER", FALSE, TRUE, None),
                    Column("prompt", "TEXT", TRUE, FALSE, None),
                    Column("sql_code", "TEXT", TRUE, FALSE, None),
                    Column("schema_data", "TEXT", TRUE, FALSE, None),
                    Column("created_at", "TIMESTAMP", FALSE, FALSE,
                           "CURRENT_TIMESTAMP") >>
          [] OTHER ->
                 << Column("name", "", FALSE, FALSE, None),
                    Column("seq", "", FALSE, FALSE, None) >>]

Init ==
    /\ pc = "idle"
    /\ schema = EmptySchema
    /\ fragments = <<>>
    /\ sql = ""
    /\ schema_json = EmptySchema
    /\ statements = <<>>
    /\ GEMINI_AVAILABLE \in BOOLEAN
    /\ calls = <<>>
    /\ response = <<>>
    /\ request_table = ""
    /\ database = init_database
    /\ db_log = <<>>

\* generate_database, lines 833-841: the oracle answered with the structured
\* schema s; parse_natural_language_with_ai returns it with its 'columns'
\* lists and the forward generator is called on that; a KeyError leaves the
\* handler through lines 882-890 with sql = "" and an empty schema_data
GenerateSql(s) ==
    /\ pc = "idle"
    /\ GEMINI_AVAILABLE
    /\ schema' = s
    /\ LET parsed == convert_attributes(s)
           out == generate_sql_from_structured_schema(parsed)
       IN  /\ sql' = IF out = KeyError THEN "" ELSE out
           /\ schema_json' = IF out = KeyError THEN EmptySchema ELSE parsed
           /\ pc' = IF out = KeyError THEN "failed" ELSE "generated"
    /\ UNCHANGED <<fragments, statements, GEMINI_AVAILABLE, calls, response,
                   request_table, database, db_log>>

\* generate_database, lines 842-844: the oracle returned DDL text
ReceiveSql(fs) ==
    /\ pc = "idle"
    /\ GEMINI_AVAILABLE
    /\ fragments' = fs
    /\ sql' = TextOf(fs)
    /\ pc' = "received"
    /\ UNCHANGED <<schema, schema_json, statements, GEMINI_AVAILABLE, calls,
                   response, request_table, database, db_log>>

\* generate_database, line 846: the text is parsed back into a schema
ParseSql ==
    /\ pc \in {"generated", "received"}
    /\ schema_json' = parse_sql_to_schema(sql)
    /\ pc' = IF pc = "generated" THEN "roundtrip" ELSE "parsed"
    /\ UNCHANGED <<schema, fragments, sql, statements, GEMINI_AVAILABLE,
                   calls, response, request_table, database, db_log>>

\* generate_database, lines 847-853: no oracle output (the oracle is not
\* configured, or the call of line 844 raised)
Fallback ==
    /\ pc = "idle"
    /\ sql' = generate_sql_with_fallback
    /\ schema_json' = EmptySchema
    /\ pc' = "fallback"
    /\ UNCHANGED <<schema, fragments, statements, GEMINI_AVAILABLE, calls,
                   response, request_table, database, db_log>>

\* generate_database, lines 856-858: execute_sql(sql) splits the text and
\* runs its statements one after the other
ExecuteSql ==
    /\ pc \in {"generated", "parsed", "fallback"}
    /\ statements' = split_statements(sql)
    /\ pc' = "executed"
    /\ UNCHANGED <<schema, fragments, sql, schema_json, GEMINI_AVAILABLE,
                   calls, response, request_table, database, db_log>>

\* a generation call of the generate_sql endpoint and how it ended
Call(fn, outcome) == [fn |-> fn, outcome |-> outcome]

\* GenerateSQLResponse, lines 68-71
GenerateSQLResponse(text, success, message) ==
    [sql |-> text, success |-> success, message |-> message]

\* a variant of after_structured that goes on to line 755 after a rendering
after_structured_falls_through(out) == "direct"

\* generate_sql, lines 743-752: a rendered schema is returned at once; a
\* raise of the rendering is caught at line 751 and control reaches line 755
after_structured(out) == IF out = KeyError THEN "direct" ELSE "responded"

\* generate_sql, lines 739-752, when parse_natural_language_with_ai returns
\* None: the oracle call failed, its answer was no JSON, or it had no tables
StructuredNone ==
    /\ pc = "idle"
    /\ GEMINI_AVAILABLE
    /\ calls' = Append(calls, Call("parse_natural_language_with_ai", "none"))
    /\ pc' = "direct"
    /\ UNCHANGED <<schema, fragments, sql, schema_json, statements,
                   GEMINI_AVAILABLE, response, request_table, database, db_log>>

\* generate_sql, lines 739-752, when the oracle answers with the schema s
StructuredSchema(s) ==
    /\ pc = "idle"
    /\ GEMINI_AVAILABLE
    /\ s.tables # <<>>
    /\ schema' = s
    /\ LET out == generate_sql_from_structured_schema(convert_attributes(s))
       IN  /\ calls' = calls
                  \o << Call("parse_natural_language_with_ai", "schema"),
                        Call("generate_sql_from_structured_schema",
                             IF out = KeyError THEN "raised" ELSE "text") >>
           /\ response' =
                  IF out = KeyError THEN response
                  ELSE GenerateSQLResponse(out, TRUE,
                           "SQL generated using AI natural language processing")
           /\ pc' = after_structured(out)
    /\ UNCHANGED <<fragments, sql, schema_json, statements, GEMINI_AVAILABLE,
                   request_table, database, db_log>>

\* generate_sql, lines 755-762: generate_sql_with_gemini returns the cleaned
\* text of the oracle
DirectGeneration(fs) ==
    /\ pc = "direct"
    /\ GEMINI_AVAILABLE
    /\ fragments' = fs
    /\ calls' = Append(calls, Call("generate_sql_with_gemini", "text"))
    /\ response' = GenerateSQLResponse(TextOf(fs), TRUE, "SQL generated using AI")
    /\ pc' = "responded"
    /\ UNCHANGED <<schema, sql, schema_json, statements, GEMINI_AVAILABLE,
                   request_table, database, db_log>>

\* generate_sql, lines 755-764: generate_sql_with_gemini raises (line 384)
DirectRaises ==
    /\ pc = "direct"
    /\ GEMINI_AVAILABLE
    /\ calls' = Append(calls, Call("generate_sql_with_gemini", "raised"))
    /\ pc' = "final"
    /\ UNCHANGED <<schema, fragments, sql, schema_json, statements,
                   GEMINI_AVAILABLE, response, request_table, database, db_log>>

\* generate_sql, lines 766-772: the fixed text, after both attempts or when
\* the tests of lines 739 and 755 found no oracle
FinalFallback ==
    /\ pc = "final" \/ (pc = "idle" /\ ~GEMINI_AVAILABLE)
    /\ calls' = Append(calls, Call("generate_sql_with_fallback", "text"))
    /\ response' = GenerateSQLResponse(generate_sql_with_fallback, TRUE,
                                       "SQL generated using fallback method")
    /\ pc' = "responded"
    /\ UNCHANGED <<schema, fragments, sql, schema_json, statements,
                   GEMINI_AVAILABLE, request_table, database, db_log>>

\* the table names a request can carry in its path
TableNames ==
    {"test_table", "saved_schemas", "sqlite_sequence", "Students", "_t1",
     "test_table\n", "1abc", "test-table", "saved schemas",
     "test_table; DROP TABLE saved_schemas"}

\* lines 983, 1009, 1116: re.match(r'^[a-zA-Z_][a-zA-Z0-9_]*$', table_name);
\* `$` also matches in front of a newline that ends the name
valid_table_name(name) ==
    \E last \in {Len(name), Len(name) - 1} :
        /\ last >= 1
        /\ last = Len(name) \/ Char(name, Len(name)) = "\n"
        /\ Char(name, 1) \notin CharsOf(Digits)
        /\ \A i \in 1..last : IsWord(Char(name, i))

\* what a handler sends for HTTPException(status_code, detail)
HTTPException(status_code, detail) == [status |-> status_code, detail |-> detail]

\* what a handler sends for a returned body
Returned(body) == [status |-> 200, body |-> body]

\* str(e) of an HTTPException: "<status>: <detail>" where the framework
\* defines __str__ for it, the empty string where it does not
str_HTTPException(status_code, detail) ==
    {(IF status_code = 400 THEN "400" ELSE "500") \o ": " \o detail, ""}

\* lines 1001-1002, 1055-1056, 1136-1137: `except Exception as e` around the
\* whole body; HTTPException is an Exception, so the raise of the name check
\* is caught here too and sent as status 500 with str(e) as its detail
caught(status_code, detail) ==
    {HTTPException(500, text) : text \in str_HTTPException(status_code, detail)}

does_not_exist(name) == "Table '" \o name \o "' does not exist"

\* the statements the table endpoints run
Connect == "connect"
SelectTable == "SELECT name FROM sqlite_master WHERE type='table' AND name=?"
SelectTables == "SELECT name FROM sqlite_master WHERE type='table'"

\* lines 978-1002
drop_table(name) ==
    /\ pc = "idle"
    /\ request_table' = name
    /\ pc' = "drop_table"
    /\ IF ~valid_table_name(name)
       THEN /\ response' \in caught(400, "Invalid table name")
            /\ UNCHANGED <<database, db_log>>
       ELSE IF name \notin DOMAIN database
       THEN /\ response' = Returned([success |-> FALSE,
                                     message |-> does_not_exist(name)])
            /\ db_log' = db_log \o <<Connect, SelectTable>>
            /\ UNCHANGED database
       ELSE IF name = "sqlite_sequence"
       THEN \* SQLite refuses the statement; line 1001 catches its error
            /\ response' =
                   HTTPException(500, "table sqlite_sequence may not be dropped")
            /\ db_log' = db_log
                   \o <<Connect, SelectTable, "DROP TABLE IF EXISTS " \o name>>
            /\ UNCHANGED database
       ELSE /\ response' =
                   Returned([success |-> TRUE,
                             message |-> "Table '" \o name
                                             \o "' dropped successfully"])
            /\ db_log' = db_log
                   \o <<Connect, SelectTable, "DROP TABLE IF EXISTS " \o name>>
            /\ database' = [t \in DOMAIN database \ {name} |-> database[t]]
    /\ UNCHANGED <<schema, fragments, sql, schema_json, statements,
                   GEMINI_AVAILABLE, calls>>

\* lines 1004-1056
get_table_structure(name) ==
    /\ pc = "idle"
    /\ request_table' = name
    /\ pc' = "get_table_structure"
    /\ IF ~valid_table_name(name)
       THEN /\ response' \in caught(400, "Invalid table name")
            /\ UNCHANGED db_log
       ELSE IF name \notin DOMAIN database
       THEN /\ response' = Returned([success |-> FALSE,
                                     message |-> does_not_exist(name)])
            /\ db_log' = db_log \o <<Connect, SelectTable>>
       ELSE /\ response' =
                   Returned([success |-> TRUE,
                             table_structure |->
                                 [table_name |-> name,
                                  columns |-> database[name],
                                  foreign_keys |-> <<>>]])
            /\ db_log' = db_log
                   \o <<Connect, SelectTable,
                        "PRAGMA table_info(" \o name \o ")",
                        "PRAGMA foreign_key_list(" \o name \o ")">>
    /\ UNCHANGED <<schema, fragments, sql, schema_json, statements,
                   GEMINI_AVAILABLE, calls, database>>

\* lines 1111-1137, with get_all_tables (647-660) and
\* generate_drop_table_sql (632-634)
generate_drop_sql_for_table(name) ==
    /\ pc = "idle"
    /\ request_table' = name
    /\ pc' = "generate_drop_sql_for_table"
    /\ IF ~valid_table_name(name)
       THEN /\ response' \in caught(400, "Invalid table name")
            /\ UNCHANGED db_log
       ELSE /\ db_log' = db_log \o <<Connect, SelectTables>>
            /\ response' =
                   IF name \notin DOMAIN database
                   THEN Returned([success |-> FALSE, sql |-> "",
                                  message |-> does_not_exist(name)])
                   ELSE Returned([success |-> TRUE,
                                  sql |-> "DROP TABLE IF EXISTS " \o name \o ";",
                                  table_name |-> name,
                                  message |-> "Generated DROP statement for table '"
                                                  \o name \o "'"])
    /\ UNCHANGED <<schema, fragments, sql, schema_json, statements,
                   GEMINI_AVAILABLE, calls, database>>

Next ==
    \/ \E s \in Schemas : GenerateSql(s)
    \/ \E fs \in FragmentLists \cup SeparatorLists \cup TwoKeyLists : ReceiveSql(fs)
    \/ ParseSql
    \/ Fallback
    \/ ExecuteSql
    \/ StructuredNone
    \/ \E s \in Schemas : StructuredSchema(s)
    \/ \E fs \in FragmentLists \cup SeparatorLists \cup TwoKeyLists : DirectGeneration(fs)
    \/ DirectRaises
    \/ FinalFallback
    \/ \E name \in TableNames : drop_table(name)
    \/ \E name \in TableNames : get_table_structure(name)
    \/ \E name \in TableNames : generate_drop_sql_for_table(name)

Spec == Init /\ [][Next]_vars

(***************************************************************************)
(* Vocabulary of the properties.                                           *)
(***************************************************************************)
Range(seq) == {seq[k] : k \in DOMAIN seq}

Pluralised(name) == name \o "s"

\* an id-named attribute, as the specification words it: the lower-cased
\* name ends with `_id` or `id` and does not end with `name`
EndsWithId(attr) ==
    /\ endswith(lower(attr), "_id") \/ endswith(lower(attr), "id")
    /\ ~endswith(lower(attr), "name")

\* the same with the suffix `_id` only
EndsWithUnderscoreId(attr) ==
    endswith(lower(attr), "_id") /\ ~endswith(lower(attr), "name")

\* every entity's first attribute is id-named
IdNamedFirst(s) ==
    \A i \in DOMAIN s.tables :
        /\ table_attributes(s.tables[i]) # <<>>
        /\ EndsWithId(table_attributes(s.tables[i])[1])

EntityNamesOf(s) == [i \in DOMAIN s.tables |-> s.tables[i].name]

AttributeNamesOf(s) == [i \in DOMAIN s.tables |-> table_attributes(s.tables[i])]

Endpoints(rel) == <<rel.fromTable, rel.fromColumn, rel.toTable, rel.toColumn>>

\* the relationships of a schema that start at one of its entities
OwnedRelationships(s) ==
    {rel \in Range(s.relationships) : rel.fromTable \in Range(EntityNamesOf(s))}

\* the text between the first "(" and the last ")" of a statement
TableBody(stmt) ==
    LET opens == Occurrences(stmt, "(")
        closes == Occurrences(stmt, ")")
    IN  IF opens = {} \/ closes = {} THEN ""
        ELSE Slice(stmt, Min(opens) + 1, Max(closes) - 1)

\* the generated text of each entity, and the lines of each
Blocks == split(sql, "\n\n")

LinesOf(block) == split(block, "\n")

\* the line of attribute j in the block of entity i
AttributeLine(i, j) == LinesOf(Blocks[i])[j + 1]

\* the whitespace-delimited tokens of a line, as offsets: token k starts at
\* TokenStarts(line)[k]
TokenStarts(line) ==
    sorted({k \in 1..Len(line) :
               /\ ~IsSpace(Char(line, k))
               /\ k = 1 \/ IsSpace(Char(line, k - 1))})

TokenEnd(line, start) ==
    Min({k \in start..Len(line) : k = Len(line) \/ IsSpace(Char(line, k + 1))})

Token(line, k) ==
    LET starts == TokenStarts(line)
    IN  IF k > Len(starts) THEN ""
        ELSE Slice(line, starts[k], TokenEnd(line, starts[k]))

(***************************************************************************)
(* C1 (as stated): round trip. For a generated schema whose entities have  *)
(* an id-named first attribute, parsing the generated text gives back the  *)
(* entity names, the attribute names and the relationship endpoints of the *)
(* input. Violated: the generator appends "s" to every table name.         *)
(***************************************************************************)
C1_RoundTripSameNames ==
    (pc = "roundtrip" /\ IdNamedFirst(schema)) =>
        /\ EntityNamesOf(schema_json) = EntityNamesOf(schema)
        /\ AttributeNamesOf(schema_json) = AttributeNamesOf(schema)
        /\ {Endpoints(rel) : rel \in Range(schema_json.relationships)}
               = {Endpoints(rel) : rel \in Range(schema.relationships)}

(***************************************************************************)
(* C1 (amended): round trip up to pluralisation. Under the same            *)
(* precondition the parsed schema has the input's entity names with "s"    *)
(* appended, in order, the same attribute names in order per entity, and   *)
(* as relationship endpoints those of the input relationships whose        *)
(* fromTable is an entity of the schema, fromTable and toTable with "s"    *)
(* appended.                                                               *)
(***************************************************************************)
C1_RoundTripPluralised ==
    (pc = "roundtrip" /\ IdNamedFirst(schema)) =>
        /\ EntityNamesOf(schema_json)
               = [i \in DOMAIN schema.tables |-> Pluralised(schema.tables[i].name)]
        /\ AttributeNamesOf(schema_json) = AttributeNamesOf(schema)
        /\ {Endpoints(rel) : rel \in Range(schema_json.relationships)}
               = {<<Pluralised(rel.fromTable), rel.fromColumn,
                    Pluralised(rel.toTable), rel.toColumn>> :
                      rel \in OwnedRelationships(schema)}

C1_Witness ==
    /\ pc = "roundtrip"
    /\ IdNamedFirst(schema)
    /\ Len(schema.tables) = 2
    /\ Len(table_attributes(schema.tables[2])) >= 2
    /\ Len(schema_json.relationships) = 2
    /\ schema_json.tables[2].name = "Borrowings"

(***************************************************************************)
(* C2: comma correctness. The statements of the generated text are one per *)
(* entity, and the body of an entity's statement, cut at its depth-zero    *)
(* commas, has exactly as many non-empty definitions as the entity has     *)
(* attributes plus relationships starting at it.                           *)
(***************************************************************************)
C2_CommaCount ==
    pc = "generated" =>
        LET stmts == split_statements(sql)
        IN  /\ Len(stmts) = Len(schema.tables)
            /\ \A i \in DOMAIN schema.tables :
                   Len(column_definitions(TableBody(stmts[i])))
                       = Len(table_attributes(schema.tables[i]))
                         + Len(table_relationships(schema.tables[i],
                                                   schema.relationships))

C2_Witness ==
    /\ pc = "generated"
    /\ Len(schema.tables) = 2
    /\ \E i \in DOMAIN schema.tables :
           /\ Len(table_attributes(schema.tables[i])) = 2
           /\ Len(table_relationships(schema.tables[i], schema.relationships)) = 2
           /\ Len(column_definitions(TableBody(split_statements(sql)[i]))) = 4
    /\ \E i \in DOMAIN schema.tables :
           /\ table_relationships(schema.tables[i], schema.relationships) = <<>>
           /\ Len(column_definitions(TableBody(split_statements(sql)[i]))) = 3

(***************************************************************************)
(* C3: primary key uniqueness. The text generated for an entity holds the  *)
(* keyword PRIMARY KEY at most once.                                       *)
(***************************************************************************)
C3_OnePrimaryKey ==
    pc = "generated" =>
        \A i \in DOMAIN schema.tables :
            Cardinality(Occurrences(
                generate_table_sql(schema.tables[i], schema.tables,
                                   schema.relationships),
                "PRIMARY KEY")) <= 1

C3_Witness ==
    /\ pc = "generated"
    /\ \E i \in DOMAIN schema.tables :
           /\ Cardinality({j \in DOMAIN table_attributes(schema.tables[i]) :
                  EndsWithUnderscoreId(table_attributes(schema.tables[i])[j])}) = 2
           /\ Cardinality(Occurrences(Blocks[i], "PRIMARY KEY")) = 1

(***************************************************************************)
(* C4: the generator does not fail on a structurally valid schema, and an  *)
(* empty entity list gives the empty text.                                 *)
(***************************************************************************)
C4_NeverFails ==
    /\ (pc \in {"generated", "failed"} /\ Valid(schema)) => pc = "generated"
    /\ (pc \in {"generated", "failed"} /\ schema.tables = <<>>) =>
           (pc = "generated" /\ sql = "")

C4_Witness ==
    /\ pc = "generated"
    /\ schema.tables = <<>>
    /\ schema.relationships # <<>>
    /\ sql = ""

(***************************************************************************)
(* More vocabulary: the matched table bodies of the text at hand and their *)
(* definitions.                                                            *)
(***************************************************************************)
Matches == find_all_tables(sql, 1)

DefinitionsOf(k) == column_definitions(Matches[k].columns)

\* the table names the well-formed pieces of the received text hold
WellFormedTables == concat([k \in DOMAIN fragments |-> fragments[k].tables], 1)

\* parenthesis depth in front of character i
DepthAt(text, i) ==
    Cardinality({k \in 1..(i - 1) : Char(text, k) = "("})
    - Cardinality({k \in 1..(i - 1) : Char(text, k) = ")"})

Commas(text) == Occurrences(text, ",")

RECURSIVE SumLen(_, _)
SumLen(sets, i) ==
    IF i > Len(sets) THEN 0 ELSE Cardinality(sets[i]) + SumLen(sets, i + 1)

StartsWithForeignKey(d) == literal_at(d, 1, "FOREIGN KEY")

HasReferences(d) == \E i \in 1..Len(d) : literal_at(d, i, "REFERENCES")

\* the definition starts with a word, whitespace and a second word
TwoWords(d) ==
    /\ Token(d, 1) # ""
    /\ \A i \in 1..Len(Token(d, 1)) : IsWord(Char(Token(d, 1), i))
    /\ Token(d, 2) # ""
    /\ IsWord(Char(Token(d, 2), 1))

FirstTokens(defs) == [j \in DOMAIN defs |-> Token(defs[j], 1)]

\* the fromTable of every relationship the definitions should give, table by
\* table
ExpectedFromTables ==
    LET ms == Matches
    IN  concat([k \in DOMAIN ms |->
                   [j \in DOMAIN SelectSeq(column_definitions(ms[k].columns),
                                    LAMBDA d : StartsWithForeignKey(d) /\ HasReferences(d))
                       |-> ms[k].table_name]], 1)

BorrowingsRelationship ==
    Rel("Borrowings", "Student_ID", "Students", "Student_ID")

(***************************************************************************)
(* C5 (as stated): best-effort parsing. A text with no CREATE TABLE block  *)
(* parses to the empty schema, and a text that mixes unrecognised pieces   *)
(* with well-formed blocks parses to exactly the entities of the           *)
(* well-formed blocks. Violated: an unterminated CREATE TABLE swallows the *)
(* well-formed block that follows it.                                      *)
(***************************************************************************)
C5_BestEffortParse ==
    pc = "parsed" =>
        /\ WellFormedTables = <<>> => schema_json = EmptySchema
        /\ EntityNamesOf(schema_json) = WellFormedTables

(***************************************************************************)
(* C6: nested-parenthesis safety. Every comma of a table body that stands  *)
(* inside parentheses is kept inside one definition, and the Products      *)
(* block, whose column Price is DECIMAL(10,2), parses to the attributes    *)
(* Product_ID and Price only.                                              *)
(***************************************************************************)
C6_NestedParens ==
    pc = "parsed" =>
        LET ms == Matches
        IN  \A k \in DOMAIN ms :
                LET body == ms[k].columns
                    defs == column_definitions(body)
                IN  /\ SumLen([j \in DOMAIN defs |-> Commas(defs[j])], 1)
                           = Cardinality({i \in Commas(body) : DepthAt(body, i) # 0})
                    /\ Len(schema_json.tables[k].attributes) <= Len(defs)
                    /\ schema_json.tables[k].name = "Products" =>
                           schema_json.tables[k].attributes = <<"Product_ID", "Price">>

C6_Witness ==
    /\ pc = "parsed"
    /\ contains(sql, "Price DECIMAL(10,2) NOT NULL")
    /\ \E k \in DOMAIN schema_json.tables :
           /\ schema_json.tables[k].name = "Products"
           /\ schema_json.tables[k].attributes = <<"Product_ID", "Price">>
           /\ Len(DefinitionsOf(k)) = 2

(***************************************************************************)
(* C7 (as stated): every definition of a parsed table body that starts     *)
(* with FOREIGN KEY and has a REFERENCES clause gives one relationship     *)
(* from the enclosing table and no attribute; every other definition gives *)
(* one attribute named by its first token. Violated: a FOREIGN KEY         *)
(* definition without REFERENCES gives nothing, not an attribute.          *)
(***************************************************************************)
C7_EveryDefinitionCounts ==
    pc = "parsed" =>
        /\ LET ms == Matches
           IN  \A k \in DOMAIN ms :
                   schema_json.tables[k].attributes
                       = FirstTokens(SelectSeq(column_definitions(ms[k].columns),
                             LAMBDA d : ~(StartsWithForeignKey(d) /\ HasReferences(d))))
        /\ [r \in DOMAIN schema_json.relationships |->
               schema_json.relationships[r].fromTable] = ExpectedFromTables

(***************************************************************************)
(* C7 (amended): a definition that starts with FOREIGN KEY gives no        *)
(* attribute; with a single-column REFERENCES clause it gives one          *)
(* relationship from the enclosing table, without one it gives nothing.    *)
(* A definition that does not start with FOREIGN KEY gives one attribute   *)
(* named by its first token when it starts with two words, else nothing.   *)
(* The Borrowings block of Scenario B gives two attributes and its one     *)
(* relationship.                                                           *)
(***************************************************************************)
C7_DefinitionClasses ==
    pc = "parsed" =>
        /\ LET ms == Matches
           IN  \A k \in DOMAIN ms :
                   /\ schema_json.tables[k].attributes
                          = FirstTokens(SelectSeq(column_definitions(ms[k].columns),
                                LAMBDA d : ~StartsWithForeignKey(d) /\ TwoWords(d)))
                   /\ schema_json.tables[k].name = "Borrowings" =>
                          /\ schema_json.tables[k].attributes
                                 = <<"Borrowing_ID", "Student_ID">>
                          /\ BorrowingsRelationship \in Range(schema_json.relationships)
        /\ [r \in DOMAIN schema_json.relationships |->
               schema_json.relationships[r].fromTable] = ExpectedFromTables

C7_Witness ==
    /\ pc = "parsed"
    /\ Len(schema_json.tables) = 2
    /\ schema_json.tables[1].name = "Borrowings"
    /\ schema_json.tables[1].attributes = <<"Borrowing_ID", "Student_ID">>
    /\ schema_json.tables[2].name = "Loans"
    /\ schema_json.tables[2].attributes = <<"Loan_ID">>
    /\ Len(DefinitionsOf(2)) = 2
    /\ schema_json.relationships = <<BorrowingsRelationship>>

(***************************************************************************)
(* C8: rendering. The generated text is one block per entity, in input     *)
(* order, two blocks separated by one blank line; a block is the header    *)
(* line, one line per attribute in input order indented by two spaces, the *)
(* foreign key lines, and the closing line. Scenario A renders exactly.    *)
(***************************************************************************)
ScenarioA ==
    [tables |-> << [name |-> "Student",
                    attributes |-> <<"Student_ID", "Name", "Email">>] >>,
     relationships |-> <<>>]

ScenarioAText ==
    "CREATE TABLE IF NOT EXISTS Students (\n  Student_ID INTEGER PRIMARY KEY,\n  Name TEXT NOT NULL,\n  Email TEXT UNIQUE\n);"

C8_Rendering ==
    pc = "generated" =>
        LET blocks == Blocks
        IN  /\ schema.tables # <<>> => Len(blocks) = Len(schema.tables)
            /\ \A i \in DOMAIN schema.tables :
                   LET lines == LinesOf(blocks[i])
                       attrs == table_attributes(schema.tables[i])
                       fks == table_relationships(schema.tables[i], schema.relationships)
                   IN  /\ Len(lines) = Len(attrs) + Len(fks) + 2
                       /\ lines[1] = "CREATE TABLE IF NOT EXISTS "
                                         \o schema.tables[i].name \o "s ("
                       /\ \A j \in DOMAIN attrs :
                              startswith_at(lines[j + 1], 1, "  " \o attrs[j] \o " ")
                       /\ \A j \in DOMAIN fks :
                              startswith_at(lines[Len(attrs) + j + 1], 1,
                                            "  FOREIGN KEY (" \o fks[j].fromColumn \o ")")
                       /\ lines[Len(lines)] = ");"
            /\ schema = ScenarioA => sql = ScenarioAText

C8_Witness ==
    /\ pc = "generated"
    /\ Len(schema.tables) = 2
    /\ schema.tables[1] = ScenarioA.tables[1]
    /\ Len(Blocks) = 2
    /\ Blocks[1] = ScenarioAText
    /\ Len(LinesOf(Blocks[2])) = 5
    /\ contains(sql, ");\n\nCREATE TABLE IF NOT EXISTS Borrowings (\n")

(***************************************************************************)
(* C9 (as stated): PRIMARY KEY stands on the line of the first attribute   *)
(* whose lower-cased name ends with `_id` or `id` (and not with `name`),   *)
(* and on no other line. Violated: the attribute `id` gets no key.         *)
(***************************************************************************)
C9_KeyOnFirstIdOrUnderscoreId ==
    pc = "generated" =>
        LET blocks == Blocks
        IN  \A i \in DOMAIN schema.tables :
                LET attrs == table_attributes(schema.tables[i])
                    lines == LinesOf(blocks[i])
                IN  \A j \in DOMAIN attrs :
                        contains(lines[j + 1], "PRIMARY KEY")
                            <=> /\ EndsWithId(attrs[j])
                                /\ \A h \in 1..(j - 1) : ~EndsWithId(attrs[h])

(***************************************************************************)
(* C9 (amended): PRIMARY KEY stands on the line of the first attribute     *)
(* whose lower-cased name ends with `_id`, and on no other line; an entity *)
(* without such an attribute is rendered without PRIMARY KEY.              *)
(***************************************************************************)
C9_KeyOnFirstUnderscoreId ==
    pc = "generated" =>
        LET blocks == Blocks
        IN  \A i \in DOMAIN schema.tables :
                LET attrs == table_attributes(schema.tables[i])
                    lines == LinesOf(blocks[i])
                IN  /\ \A j \in DOMAIN attrs :
                           contains(lines[j + 1], "PRIMARY KEY")
                               <=> /\ EndsWithUnderscoreId(attrs[j])
                                   /\ \A h \in 1..(j - 1) : ~EndsWithUnderscoreId(attrs[h])
                    /\ (\A j \in DOMAIN attrs : ~EndsWithUnderscoreId(attrs[j]))
                           => ~contains(blocks[i], "PRIMARY KEY")

C9_Witness ==
    /\ pc = "generated"
    /\ Len(schema.tables) = 2
    /\ table_attributes(schema.tables[1]) = <<"Name", "Email">>
    /\ ~contains(Blocks[1], "PRIMARY KEY")
    /\ table_attributes(schema.tables[2]) = <<"Borrowing_ID", "Update_ID", "Username">>
    /\ contains(AttributeLine(2, 1), "PRIMARY KEY")
    /\ ~contains(AttributeLine(2, 2), "PRIMARY KEY")

(***************************************************************************)
(* C10 (as stated): the type of an attribute whose lower-cased name ends   *)
(* with `_id` or `id` (and not with `name`) is INTEGER. Violated: the      *)
(* attribute `id` is TEXT.                                                 *)
(***************************************************************************)
\* the type on an attribute line: its second token, without the comma
TypeOnLine(line) ==
    LET tok == Token(line, 2)
    IN  IF endswith(tok, ",") THEN Slice(tok, 1, Len(tok) - 1) ELSE tok

C10_IntegerForIdOrUnderscoreId ==
    pc = "generated" =>
        LET blocks == Blocks
        IN  \A i \in DOMAIN schema.tables :
                LET attrs == table_attributes(schema.tables[i])
                    lines == LinesOf(blocks[i])
                IN  \A j \in DOMAIN attrs :
                        EndsWithId(attrs[j]) => TypeOnLine(lines[j + 1]) = "INTEGER"

(***************************************************************************)
(* C10 (amended): the type of an attribute whose lower-cased name ends     *)
(* with `_id` is INTEGER, whatever else the name contains.                 *)
(***************************************************************************)
C10_IntegerForUnderscoreId ==
    pc = "generated" =>
        LET blocks == Blocks
        IN  \A i \in DOMAIN schema.tables :
                LET attrs == table_attributes(schema.tables[i])
                    lines == LinesOf(blocks[i])
                IN  \A j \in DOMAIN attrs :
                        EndsWithUnderscoreId(attrs[j])
                            => TypeOnLine(lines[j + 1]) = "INTEGER"

C10_Witness ==
    /\ pc = "generated"
    /\ \E i \in DOMAIN schema.tables :
           \E j \in DOMAIN table_attributes(schema.tables[i]) :
               /\ table_attributes(schema.tables[i])[j] = "Update_ID"
               /\ contains(lower("Update_ID"), "date")
               /\ AttributeLine(i, j) = "  Update_ID INTEGER,"

(***************************************************************************)
(* C11: constraint keywords. After its type an attribute line carries      *)
(* UNIQUE exactly when the lower-cased name contains `email`, NOT NULL     *)
(* exactly when it contains `name` and does not end with `_id`, both       *)
(* whatever the type, and the keywords stand in the order PRIMARY KEY,     *)
(* UNIQUE, NOT NULL.                                                       *)
(***************************************************************************)
\* what follows the type on an attribute line, without the closing comma
KeywordsOnLine(line) ==
    LET body == IF endswith(line, ",") THEN Slice(line, 1, Len(line) - 1) ELSE line
        starts == TokenStarts(body)
    IN  IF Len(starts) < 2 THEN ""
        ELSE Slice(body, TokenEnd(body, starts[2]) + 1, Len(body))

NameHasEmail(attr) == contains(lower(attr), "email")

NameAsksNotNull(attr) ==
    contains(lower(attr), "name") /\ ~endswith(lower(attr), "_id")

C11_ConstraintKeywords ==
    pc = "generated" =>
        LET blocks == Blocks
        IN  \A i \in DOMAIN schema.tables :
                LET attrs == table_attributes(schema.tables[i])
                    lines == LinesOf(blocks[i])
                IN  \A j \in DOMAIN attrs :
                        KeywordsOnLine(lines[j + 1])
                            \in {key \o (IF NameHasEmail(attrs[j]) THEN " UNIQUE" ELSE "")
                                     \o (IF NameAsksNotNull(attrs[j]) THEN " NOT NULL" ELSE "") :
                                     key \in {"", " PRIMARY KEY"}}

C11_Witness ==
    /\ pc = "generated"
    /\ Len(schema.tables) = 2
    /\ table_attributes(schema.tables[1]) = <<"Email_ID", "Name_ID", "Email_Name">>
    /\ LinesOf(Blocks[1])[2] = "  Email_ID INTEGER PRIMARY KEY UNIQUE,"
    /\ LinesOf(Blocks[1])[3] = "  Name_ID INTEGER,"
    /\ LinesOf(Blocks[1])[4] = "  Email_Name TEXT UNIQUE NOT NULL"

(***************************************************************************)
(* C12: inference determinism. The type and the UNIQUE / NOT NULL keywords *)
(* on an attribute line are those a separate call of the generator gives   *)
(* the lower-cased name standing alone in another entity; hence two        *)
(* attributes whose names are equal ignoring letter case carry the same    *)
(* type and the same UNIQUE / NOT NULL keywords, whatever their entity,    *)
(* position and neighbours.                                                *)
(***************************************************************************)
\* the UNIQUE / NOT NULL keywords of an attribute line
ConstraintsOnLine(line) ==
    LET keywords == KeywordsOnLine(line)
    IN  IF startswith_at(keywords, 1, " PRIMARY KEY")
        THEN Slice(keywords, Len(" PRIMARY KEY") + 1, Len(keywords))
        ELSE keywords

Inferred(line) == <<TypeOnLine(line), ConstraintsOnLine(line)>>

\* the line a call of its own gives the name as the only attribute of an
\* entity of a schema without relationships
LineAlone(name) ==
    LinesOf(generate_sql_from_structured_schema(
                [tables |-> <<[name |-> "Reference", attributes |-> <<name>>]>>,
                 relationships |-> <<>>]))[2]

C12_InferenceByName ==
    pc = "generated" =>
        LET blocks == Blocks
            \* every attribute of the schema: its lower-cased name with what
            \* its line carries
            inferred ==
                UNION {LET attrs == table_attributes(schema.tables[i])
                           lines == LinesOf(blocks[i])
                       IN  {<<lower(attrs[j]), Inferred(lines[j + 1])>> :
                               j \in DOMAIN attrs} : i \in DOMAIN schema.tables}
        IN  /\ \A p \in inferred : p[2] = Inferred(LineAlone(p[1]))
            /\ \A p, q \in inferred : p[1] = q[1] => p[2] = q[2]

C12_Witness ==
    /\ pc = "generated"
    /\ Len(schema.tables) = 2
    /\ table_attributes(schema.tables[1]) = <<"Name_ID", "Email_Name", "Name_Date">>
    /\ table_attributes(schema.tables[2]) = <<"EMAIL_NAME", "update_time", "name_id">>
    /\ LinesOf(Blocks[1])[2] = "  Name_ID INTEGER PRIMARY KEY,"
    /\ LinesOf(Blocks[1])[3] = "  Email_Name TEXT UNIQUE NOT NULL,"
    /\ LinesOf(Blocks[2])[2] = "  EMAIL_NAME TEXT UNIQUE NOT NULL,"
    /\ LinesOf(Blocks[2])[4] = "  name_id INTEGER PRIMARY KEY"
    /\ LineAlone("email_name") = "  email_name TEXT UNIQUE NOT NULL"

(***************************************************************************)
(* C13 (as stated): the type recorded for a column is the declared type as *)
(* written, the whole second whitespace-delimited token of its definition. *)
(* Violated: for `Price DECIMAL(10,2) NOT NULL` the parser records the     *)
(* type DECIMAL.                                                           *)
(***************************************************************************)
SecondTokens(defs) == [j \in DOMAIN defs |-> Token(defs[j], 2)]

TypesOf(table) == [j \in DOMAIN table.columns |-> table.columns[j].type]

C13_DeclaredTypeVerbatim ==
    pc = "parsed" =>
        LET ms == Matches
        IN  \A k \in DOMAIN ms :
                TypesOf(schema_json.tables[k])
                    = SecondTokens(SelectSeq(column_definitions(ms[k].columns),
                          LAMBDA d : ~StartsWithForeignKey(d) /\ TwoWords(d)))

(***************************************************************************)
(* C14: malformed foreign key. A definition that starts with FOREIGN KEY   *)
(* and has no REFERENCES clause gives no attribute and no relationship,    *)
(* and the text parses to the schema it parses to once every such          *)
(* definition is taken out of its table body.                              *)
(***************************************************************************)
MalformedForeignKey(d) == StartsWithForeignKey(d) /\ ~HasReferences(d)

RECURSIVE JoinDefinitions(_, _)
JoinDefinitions(defs, i) ==
    IF i > Len(defs) THEN ""
    ELSE defs[i] \o (IF i < Len(defs) THEN ", " ELSE "")
         \o JoinDefinitions(defs, i + 1)

\* the matched blocks of the text written again without their malformed
\* foreign keys
WithoutMalformed ==
    LET ms == Matches
    IN  join_parts([k \in DOMAIN ms |->
                       "CREATE TABLE " \o ms[k].table_name \o " ("
                       \o JoinDefinitions(
                              SelectSeq(column_definitions(ms[k].columns),
                                        LAMBDA d : ~MalformedForeignKey(d)), 1)
                       \o ");"], 1)

C14_MalformedForeignKey ==
    pc = "parsed" =>
        /\ schema_json = parse_sql_to_schema(WithoutMalformed)
        /\ LET ms == Matches
           IN  \A k \in DOMAIN ms :
                   LET defs == column_definitions(ms[k].columns)
                   IN  /\ Len(schema_json.tables[k].attributes)
                              <= Len(SelectSeq(defs, LAMBDA d : ~StartsWithForeignKey(d)))
                       /\ Cardinality({r \in DOMAIN schema_json.relationships :
                              schema_json.relationships[r].fromTable = ms[k].table_name})
                              <= Cardinality({h \in DOMAIN ms :
                                     ms[h].table_name = ms[k].table_name})
                                 * Len(SelectSeq(defs,
                                       LAMBDA d : StartsWithForeignKey(d)
                                                  /\ ~MalformedForeignKey(d)))

C14_Witness ==
    /\ pc = "parsed"
    /\ fragments = <<Loans, ScenarioB>>
    /\ \E j \in DOMAIN DefinitionsOf(1) : MalformedForeignKey(DefinitionsOf(1)[j])
    /\ Len(schema_json.tables) = 2
    /\ schema_json.tables[1].name = "Loans"
    /\ schema_json.tables[1].attributes = <<"Loan_ID">>
    /\ schema_json.tables[2].attributes = <<"Borrowing_ID", "Student_ID">>
    /\ schema_json.relationships = <<BorrowingsRelationship>>

(***************************************************************************)
(* C15 (as stated): statement splitter. The statements execute_sql runs    *)
(* are the trimmed, non-empty pieces of the text between its `;` at        *)
(* parenthesis depth zero, in order, and the same statements come out of   *)
(* the text with whitespace put in front, behind and between statements.   *)
(* Violated: a `;` inside parentheses cuts a statement in two.             *)
(***************************************************************************)
\* the trimmed, non-empty pieces of a text between its depth-zero `;`
TopLevelStatements(text) ==
    LET cuts == <<0>>
                \o sorted({i \in Occurrences(text, ";") : DepthAt(text, i) = 0})
                \o <<Len(text) + 1>>
        pieces == [k \in 1..(Len(cuts) - 1) |->
                      strip(Slice(text, cuts[k] + 1, cuts[k + 1] - 1))]
    IN  SelectSeq(pieces, LAMBDA piece : piece # "")

RECURSIVE JoinWith(_, _, _)
JoinWith(pieces, sep, i) ==
    IF i > Len(pieces) THEN ""
    ELSE pieces[i] \o (IF i < Len(pieces) THEN sep ELSE "")
         \o JoinWith(pieces, sep, i + 1)

\* the text with white space in front and behind and a blank line after
\* every `;`
Padded(text) == "\n  " \o JoinWith(split(text, ";"), ";\n\n", 1) \o "  \n\n"

C15_TopLevelSplit ==
    pc = "executed" =>
        /\ statements = TopLevelStatements(sql)
        /\ statements = split_statements(Padded(sql))

(***************************************************************************)
(* C16 (as stated): fallback. When there is no oracle output the returned  *)
(* sql is the generator's rendering of a schema with one entity and no     *)
(* relationships, and the returned schema_data has the tables the CREATE   *)
(* TABLE blocks of sql name. Violated: the fallback text is a fixed text   *)
(* the generator cannot render and schema_data has no table.               *)
(***************************************************************************)
Singular(name) ==
    IF endswith(name, "s") THEN Slice(name, 1, Len(name) - 1) ELSE name

\* the one-entity schema a text would be the rendering of: the entity and
\* the attributes its only block names
MinimalSchemaOf(text) ==
    LET parsed == parse_sql_to_schema(text)
    IN  [tables |-> [k \in DOMAIN parsed.tables |->
                        [name |-> Singular(parsed.tables[k].name),
                         attributes |-> parsed.tables[k].attributes]],
         relationships |-> <<>>]

C16_FallbackFromGenerator ==
    pc = "fallback" =>
        /\ Len(MinimalSchemaOf(sql).tables) = 1
        /\ sql = generate_sql_from_structured_schema(MinimalSchemaOf(sql))
        /\ EntityNamesOf(schema_json) = EntityNamesOf(parse_sql_to_schema(sql))

(***************************************************************************)
(* C17 (as stated): trailing comma. The line of an entity's last attribute *)
(* ends with a comma exactly when some relationship has that entity as its *)
(* fromTable. Violated: in a schema with relationships the last attribute  *)
(* of every entity is followed by a comma.                                 *)
(***************************************************************************)
C17_TrailingComma ==
    pc = "generated" =>
        LET blocks == Blocks
        IN  \A i \in DOMAIN schema.tables :
                LET attrs == table_attributes(schema.tables[i])
                    lines == LinesOf(blocks[i])
                IN  attrs # <<>> =>
                        (endswith(lines[Len(attrs) + 1], ",")
                            <=> table_relationships(schema.tables[i],
                                                    schema.relationships) # <<>>)

(***************************************************************************)
(* C18: foreign-key block. The text of an entity has, after its attribute  *)
(* lines, one line `FOREIGN KEY (<fromColumn>) REFERENCES                  *)
(* <toTable>s(<toColumn>)` for each relationship whose fromTable is the    *)
(* entity's name, in input order, each followed by a comma except the      *)
(* last, and no other FOREIGN KEY line.                                    *)
(***************************************************************************)
\* the relationships of the schema that start at the entity, in input order
RelationshipsFrom(name) ==
    SelectSeq(schema.relationships, LAMBDA rel : rel.fromTable = name)

ForeignKeyLine(rel) ==
    "  FOREIGN KEY (" \o rel.fromColumn \o ") REFERENCES "
    \o Pluralised(rel.toTable) \o "(" \o rel.toColumn \o ")"

C18_ForeignKeyBlock ==
    pc = "generated" =>
        LET blocks == Blocks
        IN  \A i \in DOMAIN schema.tables :
                LET attrs == table_attributes(schema.tables[i])
                    lines == LinesOf(blocks[i])
                    fks == RelationshipsFrom(schema.tables[i].name)
                IN  /\ {n \in DOMAIN lines : contains(lines[n], "FOREIGN KEY")}
                           = (Len(attrs) + 2)..(Len(attrs) + 1 + Len(fks))
                    /\ \A j \in DOMAIN fks :
                           lines[Len(attrs) + 1 + j]
                               = ForeignKeyLine(fks[j]) \o (IF j < Len(fks) THEN "," ELSE "")

C18_Witness ==
    /\ pc = "generated"
    /\ schema.relationships = <<BorrowsStudent, BorrowsBook>>
    /\ Len(schema.tables) = 2
    /\ table_attributes(schema.tables[2]) = <<"Borrowing_ID">>
    /\ ~contains(Blocks[1], "FOREIGN KEY")
    /\ LinesOf(Blocks[2])[3] = "  FOREIGN KEY (Student_ID) REFERENCES Students(Student_ID),"
    /\ LinesOf(Blocks[2])[4] = "  FOREIGN KEY (Book_ID) REFERENCES Books(Book_ID)"
    /\ LinesOf(Blocks[2])[5] = ");"

(***************************************************************************)
(* C19: type precedence. For an attribute whose name is not id-like the    *)
(* type on its line is DATE when the lower-cased name contains `date`;     *)
(* otherwise INTEGER when it contains `time` or `duration`; otherwise      *)
(* INTEGER when it contains `age`, `price`, `amount` or `credits`;         *)
(* otherwise TEXT. No line has a type other than INTEGER, TEXT or DATE.    *)
(***************************************************************************)
HasAny(attr, words) == \E word \in words : contains(lower(attr), word)

C19_TypePrecedence ==
    pc = "generated" =>
        LET blocks == Blocks
        IN  \A i \in DOMAIN schema.tables :
                LET attrs == table_attributes(schema.tables[i])
                    lines == LinesOf(blocks[i])
                IN  \A j \in DOMAIN attrs :
                        LET type == TypeOnLine(lines[j + 1])
                        IN  /\ type \in {"INTEGER", "TEXT", "DATE"}
                            /\ ~EndsWithId(attrs[j]) =>
                                   IF HasAny(attrs[j], {"date"}) THEN type = "DATE"
                                   ELSE IF HasAny(attrs[j], {"time", "duration"})
                                        THEN type = "INTEGER"
                                   ELSE IF HasAny(attrs[j], {"age", "price", "amount", "credits"})
                                        THEN type = "INTEGER"
                                   ELSE type = "TEXT"

C19_Witness ==
    /\ pc = "generated"
    /\ \E i \in DOMAIN schema.tables :
           /\ table_attributes(schema.tables[i]) = <<"Update_Time", "Start_Time", "Duration">>
           /\ LinesOf(Blocks[i])[2] = "  Update_Time DATE,"
           /\ LinesOf(Blocks[i])[3] = "  Start_Time INTEGER,"
           /\ LinesOf(Blocks[i])[4] = "  Duration INTEGER"
    /\ \E i \in DOMAIN schema.tables :
           LinesOf(Blocks[i])[3] = "  update_time DATE,"

(***************************************************************************)
(* C20: order preservation in parsing. For a text made of well-formed      *)
(* CREATE TABLE blocks (and prose), entity k is named by the header of     *)
(* block k, the attributes of an entity stand in its block in the order    *)
(* they are listed, and the relationships are listed in the order their    *)
(* FOREIGN KEY definitions stand in the text, each inside the block of its *)
(* fromTable.                                                              *)
(***************************************************************************)
\* where the CREATE TABLE headers of the text start, in text order
HeaderOffsets == sorted({i \in 1..Len(sql) : literal_at(sql, i, "CREATE TABLE ")})

\* block k of the text: from its header to the next header
BlockText(k) ==
    LET hs == HeaderOffsets
    IN  Slice(sql, hs[k], IF k < Len(hs) THEN hs[k + 1] - 1 ELSE Len(sql))

NamedInHeader(block, name) ==
    \/ startswith_at(block, Len("CREATE TABLE ") + 1, name \o " (")
    \/ /\ literal_at(block, Len("CREATE TABLE ") + 1, "IF NOT EXISTS ")
       /\ startswith_at(block, Len("CREATE TABLE IF NOT EXISTS ") + 1, name \o " (")

\* where the word stands in the text as a whole word
WordOffsets(text, word) ==
    {i \in Occurrences(text, word) :
        /\ i = 1 \/ ~IsWord(Char(text, i - 1))
        /\ i + Len(word) > Len(text) \/ ~IsWord(Char(text, i + Len(word)))}

\* one offset can be taken from each set in turn, each beyond the one before
RECURSIVE Increasing(_, _, _)
Increasing(sets, i, after) ==
    IF i > Len(sets) THEN TRUE
    ELSE LET later == {o \in sets[i] : o > after}
         IN  later # {} /\ Increasing(sets, i + 1, Min(later))

\* where a FOREIGN KEY definition on the relationship's fromColumn starts
\* inside a block whose entity is its fromTable
ForeignKeyOffsets(rel) ==
    LET hs == HeaderOffsets
    IN  {i \in 1..Len(sql) :
            /\ literal_at(sql, i, "FOREIGN KEY (")
            /\ startswith_at(sql, i + Len("FOREIGN KEY ("), rel.fromColumn \o ")")
            /\ \E k \in DOMAIN hs :
                   /\ hs[k] < i
                   /\ k = Len(hs) \/ i < hs[k + 1]
                   /\ schema_json.tables[k].name = rel.fromTable}

C20_OrderPreserved ==
    (pc = "parsed" /\ Len(HeaderOffsets) = Len(WellFormedTables)) =>
        /\ Len(schema_json.tables) = Len(HeaderOffsets)
        /\ \A k \in DOMAIN schema_json.tables :
               LET block == BlockText(k)
                   attrs == schema_json.tables[k].attributes
               IN  /\ NamedInHeader(block, schema_json.tables[k].name)
                   /\ Increasing([j \in DOMAIN attrs |-> WordOffsets(block, attrs[j])],
                                 1, 0)
        /\ Increasing([r \in DOMAIN schema_json.relationships |->
                           ForeignKeyOffsets(schema_json.relationships[r])], 1, 0)

C20_Witness ==
    /\ pc = "parsed"
    /\ fragments = <<Enrollments, ScenarioB>>
    /\ EntityNamesOf(schema_json) = <<"Enrollments", "Borrowings">>
    /\ schema_json.tables[1].attributes = <<"Student_ID", "Course_ID">>
    /\ schema_json.tables[2].attributes = <<"Borrowing_ID", "Student_ID">>
    /\ schema_json.relationships
           = <<Rel("Enrollments", "Student_ID", "Students", "Student_ID"),
               Rel("Enrollments", "Course_ID", "Courses", "Course_ID"),
               BorrowingsRelationship>>

(***************************************************************************)
(* C21: the type recorded in an entity's `columns` list and the type on    *)
(* the DDL line of the same name are equal, so the schema returned with    *)
(* the text never disagrees with it on a column's type. Every column of    *)
(* the returned schema is on a line of its entity's block. Violated: it    *)
(* holds for the columns parse_natural_language_with_ai records itself,    *)
(* but a `columns` list the oracle supplied is returned as it came, while  *)
(* the DDL types are inferred from the names.                              *)
(***************************************************************************)
\* the attribute lines of a block that declare the column `name`
LinesNaming(lines, name) ==
    {l \in 2..(Len(lines) - 1) : Token(lines[l], 1) = name}

\* the columns of entity i of the returned schema agree with its block
ColumnsAgree(table, lines) ==
    "columns" \in DOMAIN table =>
        \A c \in DOMAIN table.columns :
            LET naming == LinesNaming(lines, table.columns[c].name)
            IN  /\ naming # {}
                /\ \A l \in naming : TypeOnLine(lines[l]) = table.columns[c].type

\* the entities whose `columns` the parser recorded itself
Converted(i) ==
    "attributes" \in DOMAIN schema.tables[i] /\ "columns" \notin DOMAIN schema.tables[i]

C21_TypesAgree ==
    pc = "generated" =>
        LET blocks == Blocks
        IN  \A i \in DOMAIN schema_json.tables :
                ColumnsAgree(schema_json.tables[i], LinesOf(blocks[i]))

(***************************************************************************)
(* C22: the order of the attempts of the generate_sql endpoint. With the   *)
(* oracle configured the first call is the structured parsing; the direct  *)
(* generation is called only right after the structured attempt returned   *)
(* no schema or raised; the fixed text is produced only right after the    *)
(* direct generation raised, or as the only call when the oracle is not    *)
(* configured, and then no oracle call is made; a request that has not     *)
(* responded can go on, and every response has success = TRUE.             *)
(***************************************************************************)
OracleCalls == {"parse_natural_language_with_ai", "generate_sql_with_gemini"}

StructuredCalls ==
    {"parse_natural_language_with_ai", "generate_sql_from_structured_schema"}

\* the text a response carries belongs to the call that produced it
ResponseOf(call) ==
    CASE call.fn = "generate_sql_from_structured_schema" ->
             /\ response.message = "SQL generated using AI natural language processing"
             /\ response.sql = generate_sql_from_structured_schema(schema)
      [] call.fn = "generate_sql_with_gemini" ->
             /\ response.message = "SQL generated using AI"
             /\ response.sql = TextOf(fragments)
      [] call.fn = "generate_sql_with_fallback" ->
             /\ response.message = "SQL generated using fallback method"
             /\ response.sql = generate_sql_with_fallback
      [] OTHER -> FALSE

C22_FallbackOrdering ==
    /\ (calls # <<>> /\ GEMINI_AVAILABLE) =>
           calls[1].fn = "parse_natural_language_with_ai"
    /\ \A k \in DOMAIN calls :
           /\ calls[k].fn = "generate_sql_with_gemini" =>
                  /\ k > 1
                  /\ calls[k - 1].fn \in StructuredCalls
                  /\ calls[k - 1].outcome \in {"none", "raised"}
           /\ calls[k].fn = "generate_sql_with_fallback" =>
                  \/ k > 1 /\ calls[k - 1] = Call("generate_sql_with_gemini", "raised")
                  \/ k = 1 /\ ~GEMINI_AVAILABLE
           /\ ~GEMINI_AVAILABLE => calls[k].fn \notin OracleCalls
    /\ pc \in {"direct", "final"} => ENABLED (DirectRaises \/ FinalFallback)
    /\ pc = "responded" =>
           /\ response.success = TRUE
           /\ calls[Len(calls)].outcome = "text"
           /\ ResponseOf(calls[Len(calls)])

\* a configured request whose rendering raised, whose direct generation
\* raised too, and which was answered with the fixed text
C22_Witness ==
    /\ pc = "responded"
    /\ GEMINI_AVAILABLE
    /\ schema = NamelessSchema
    /\ calls = << Call("parse_natural_language_with_ai", "schema"),
                  Call("generate_sql_from_structured_schema", "raised"),
                  Call("generate_sql_with_gemini", "raised"),
                  Call("generate_sql_with_fallback", "text") >>
    /\ response.success = TRUE
    /\ response.sql = generate_sql_with_fallback

(***************************************************************************)
(* C23: drop_table, get_table_structure and generate_drop_sql_for_table    *)
(* answer a table name that does not match ^[a-zA-Z_][a-zA-Z0-9_]*$ with   *)
(* status 400 and the detail "Invalid table name", and do nothing on the   *)
(* database. Violated: the database is left alone, but the handler's own   *)
(* `except Exception` catches the HTTPException of the name check and      *)
(* sends status 500.                                                       *)
(***************************************************************************)
TableEndpoints == {"drop_table", "get_table_structure", "generate_drop_sql_for_table"}

\* the request did nothing on the database
DatabaseUntouched == db_log = <<>> /\ database = init_database

C23_InvalidNameRejected ==
    (pc \in TableEndpoints /\ ~valid_table_name(request_table)) =>
        /\ response = HTTPException(400, "Invalid table name")
        /\ DatabaseUntouched

====
